---- MODULE Spec2Model ----
(***************************************************************************)
(* cp2: concurrent copy engine.                                            *)
(*   src/src/copy.rs   normalize_path, copy_file_with_progress,            *)
(*                     copy_file_with_dual_progress, copy_dir_recursive    *)
(*   src/src/cli.rs    run (the bounded-parallelism scheduler)             *)
(*   src/src/utils.rs  get_copy_size                                       *)
(*                                                                         *)
(* A path is a sequence of components.  "/" (RootDir) is only ever the     *)
(* first component, "." is CurDir, ".." is ParentDir, anything else is a   *)
(* Normal component.  File sizes are counted in blocks of Block bytes.     *)
(***************************************************************************)
EXTENDS Integers, Sequences, FiniteSets, TLC

VARIABLES
    fs,          \* the filesystem: absolute plain path -> [kind, data]
    fs0,         \* the filesystem at the start of the run (never changes)
    cwd,         \* std::env::current_dir()
    entry,       \* the entry point under analysis: [fn, from, to]
    sources,     \* args.source
    recursive,   \* args.recursive
    quiet,       \* is_quiet
    parallel,    \* args.parallel.min(max)
    permits,     \* free permits of the semaphore
    has_failed,  \* the shared failure flag
    main_pb,     \* position of the run-wide progress bar
    file_pb,     \* unit -> position of the unit's own progress bar
    mainpc,      \* position of run(): "dest", "prescan", "spawn", "join",
                 \* "report", then "exit0", "exit1" or "exit_dest"
    pc,          \* unit -> position of the unit
    slot,        \* unit -> "none", "held", "released"
    stack,       \* unit -> frames of copy_dir_recursive, innermost last
    cp,          \* unit -> the file copy in progress (or the last one);
                 \* unsynced_peak is the most bytes it had written and not synced
    ret,         \* unit -> the Result of the call that returned last
    outcome,     \* unit -> how the unit ended
    early,       \* unit -> the unit accessed the filesystem before it held a slot
    writers,     \* the pairs <<file path, unit>>: the unit created or wrote the file
    hit,         \* the units that met an injected I/O failure
    scan         \* the locals of a call of get_copy_size: stack, p, num_files,
                 \* total_size; failed and gone tell what went wrong under it

vars == <<fs, fs0, cwd, entry, sources, recursive, quiet, parallel, permits,
          has_failed, main_pb, file_pb, mainpc, pc, slot, stack, cp, ret,
          outcome, early, writers, hit, scan>>

----------------------------------------------------------------------------
(* Bounds of the model.                                                    *)

\* The longest name given to trim_filename, in characters, and the widest
\* display asked of it.
MaxNameLen == 5
MaxWidth == 7
\* The longest list of sources of a run.
MaxSources == 2
\* The most I/O calls of a run that fail although the filesystem allows them.
MaxFaults == 1
\* The most components, after the root, of a path given to copy_dir_recursive.
MaxArgLen == 1
\* The largest file given to a file copier, in blocks: SYNC_INTERVAL is 16.
MaxFileBlocks == 17

(* Program constants, in bytes.                                            *)
Block == 4 * 1024 * 1024
BUFFER_SIZE == 8 * 1024 * 1024
SYNC_INTERVAL == 64 * 1024 * 1024
BufferBlocks == BUFFER_SIZE \div Block

----------------------------------------------------------------------------
(* std::path                                                               *)

RootDir == "/"
CurDir == "."
ParentDir == ".."

Root == <<RootDir>>

IsAbsolute(p) == p # <<>> /\ p[1] = RootDir

IsNormal(c) == c \notin {RootDir, CurDir, ParentDir}

Front(s) == SubSeq(s, 1, Len(s) - 1)

Last(s) == s[Len(s)]

RECURSIVE DropCurDir(_)
DropCurDir(s) ==
    IF s = <<>> THEN <<>>
    ELSE IF Head(s) = CurDir THEN DropCurDir(Tail(s))
    ELSE <<Head(s)>> \o DropCurDir(Tail(s))

\* Path::components(): "." is dropped everywhere but at the start of a
\* relative path.
Components(p) ==
    IF p = <<>> THEN <<>> ELSE <<Head(p)>> \o DropCurDir(Tail(p))

\* Path::join: an absolute argument replaces the base.
Join(base, p) == IF IsAbsolute(p) THEN p ELSE base \o p

\* PathBuf::pop: truncates to the parent; does nothing when there is none.
Pop(p) == IF p = <<>> \/ p = Root THEN p ELSE Front(p)

\* Path::file_name: the last component when it is a Normal one.
HasFileName(p) ==
    LET c == Components(p) IN c # <<>> /\ IsNormal(Last(c))

FileName(p) == <<Last(Components(p))>>

\* Path::starts_with: whole components only.
StartsWith(p, base) ==
    LET cp_ == Components(p)
        cb == Components(base)
    IN  /\ Len(cb) <= Len(cp_)
        /\ \A i \in 1..Len(cb) : cp_[i] = cb[i]

RECURSIVE NormalizeLoop(_, _)
NormalizeLoop(acc, comps) ==
    IF comps = <<>> THEN acc
    ELSE LET c == Head(comps) IN
         IF IsNormal(c) THEN NormalizeLoop(Append(acc, c), Tail(comps))
         ELSE IF c = CurDir THEN NormalizeLoop(acc, Tail(comps))
         ELSE IF c = ParentDir THEN NormalizeLoop(Pop(acc), Tail(comps))
         ELSE NormalizeLoop(acc, Tail(comps))

normalize_path(path) ==
    LET comps == Components(path) IN
    IF comps # <<>> /\ Head(comps) = RootDir
    THEN NormalizeLoop(Root, Tail(comps))
    ELSE NormalizeLoop(<<>>, comps)

\* The test without its exclusion of the identical pair.
IntoItselfOrSame(dir, from, to) ==
    LET from_normalized == normalize_path(Join(dir, from))
        to_normalized == normalize_path(Join(dir, to))
    IN  StartsWith(to_normalized, from_normalized)

\* The self-containment test of copy_dir_recursive.
IntoItself(dir, from, to) ==
    LET from_normalized == normalize_path(Join(dir, from))
        to_normalized == normalize_path(Join(dir, to))
    IN  StartsWith(to_normalized, from_normalized)
        /\ to_normalized # from_normalized

----------------------------------------------------------------------------
(* The filesystem, as the calls of std::fs / tokio::fs see it.  There are  *)
(* no symbolic links; a path names a directory, a regular file, a socket   *)
(* (exists, neither file nor directory, cannot be opened) or nothing.      *)

Dir == [kind |-> "dir", data |-> <<>>]
File(d) == [kind |-> "file", data |-> d]
Socket == [kind |-> "socket", data |-> <<>>]

Put(f, p, n) == [q \in DOMAIN f \cup {p} |-> IF q = p THEN n ELSE f[q]]

IsDirAt(f, p) == p \in DOMAIN f /\ f[p].kind = "dir"

\* Path resolution by the kernel: every component passed through must be
\* an existing directory; the last one need not exist.
RECURSIVE OsWalk(_, _, _)
OsWalk(f, cur, comps) ==
    IF comps = <<>> THEN [ok |-> TRUE, path |-> cur]
    ELSE LET c == Head(comps) IN
         IF c = RootDir THEN OsWalk(f, Root, Tail(comps))
         ELSE IF ~IsDirAt(f, cur) THEN [ok |-> FALSE, path |-> cur]
         ELSE IF c = CurDir THEN OsWalk(f, cur, Tail(comps))
         ELSE IF c = ParentDir THEN OsWalk(f, Pop(cur), Tail(comps))
         ELSE OsWalk(f, Append(cur, c), Tail(comps))

Resolve(f, dir, p) == OsWalk(f, dir, p)

KindAt(f, dir, p) ==
    LET r == Resolve(f, dir, p) IN
    IF r.ok /\ r.path \in DOMAIN f THEN f[r.path].kind ELSE "none"

\* Path::exists, Path::is_dir, Path::is_file
PathExists(f, dir, p) == KindAt(f, dir, p) # "none"
PathIsDir(f, dir, p) == KindAt(f, dir, p) = "dir"
PathIsFile(f, dir, p) == KindAt(f, dir, p) = "file"

\* fs::metadata(p).map(|m| m.len()).unwrap_or(0), in blocks
MetadataLen(f, dir, p) ==
    LET r == Resolve(f, dir, p) IN
    IF r.ok /\ r.path \in DOMAIN f THEN Len(f[r.path].data) ELSE 0

\* fs::File::open: a regular file or a directory can be opened for reading
\* (reading a directory then fails).
CanOpen(f, dir, p) == KindAt(f, dir, p) \in {"file", "dir"}

\* fs::File::create: creates or truncates a regular file.
CanCreate(f, dir, p) ==
    LET r == Resolve(f, dir, p) IN
    /\ r.ok
    /\ r.path # Root
    /\ IsDirAt(f, Front(r.path))
    /\ (r.path \in DOMAIN f => f[r.path].kind = "file")

\* fs::create_dir_all: walks the path, creating what is missing.
RECURSIVE MkdirWalk(_, _, _)
MkdirWalk(f, cur, comps) ==
    IF comps = <<>> THEN [ok |-> IsDirAt(f, cur), fs |-> f]
    ELSE LET c == Head(comps) IN
         IF c = RootDir THEN MkdirWalk(f, Root, Tail(comps))
         ELSE IF ~IsDirAt(f, cur) THEN [ok |-> FALSE, fs |-> f]
         ELSE IF c = CurDir THEN MkdirWalk(f, cur, Tail(comps))
         ELSE IF c = ParentDir THEN MkdirWalk(f, Pop(cur), Tail(comps))
         ELSE LET nxt == Append(cur, c) IN
              IF nxt \in DOMAIN f
              THEN MkdirWalk(f, nxt, Tail(comps))
              ELSE MkdirWalk(Put(f, nxt, Dir), nxt, Tail(comps))

create_dir_all(f, dir, p) == MkdirWalk(f, dir, p)

\* The names a directory holds.
Children(f, path) ==
    { q[Len(q)] : q \in { q \in DOMAIN f : Len(q) = Len(path) + 1
                                           /\ Front(q) = path } }

Zeros(n) == [i \in 1..n |-> 0]

\* A write whose file cursor never advances.
WriteAtStart(data, pos, chunk) ==
    chunk \o (IF Len(chunk) < Len(data)
              THEN SubSeq(data, Len(chunk) + 1, Len(data)) ELSE <<>>)

\* A write of chunk at offset pos of a file holding data: a gap left by a
\* truncation in between reads as zeros.
WriteAt(data, pos, chunk) ==
    LET n == Len(chunk)
        head == IF pos <= Len(data) THEN SubSeq(data, 1, pos)
                ELSE data \o Zeros(pos - Len(data))
        rest == IF pos + n < Len(data) THEN SubSeq(data, pos + n + 1, Len(data))
                ELSE <<>>
    IN  head \o chunk \o rest

----------------------------------------------------------------------------
(* src/src/utils.rs                                                        *)

\* get_copy_size: the explicit-stack traversal; its result is
\* <<num_files, total_size in blocks>>.
RECURSIVE SizeLoop(_, _, _, _)
SizeLoop(f, todo, num_files, total_size) ==
    IF todo = {} THEN <<num_files, total_size>>
    ELSE LET p == CHOOSE q \in todo : TRUE IN
         IF IsDirAt(f, p)
         THEN SizeLoop(f, (todo \ {p}) \cup { Append(p, c) : c \in Children(f, p) },
                       num_files, total_size)
         ELSE IF p \in DOMAIN f /\ f[p].kind = "file"
         THEN SizeLoop(f, todo \ {p}, num_files + 1, total_size + Len(f[p].data))
         ELSE SizeLoop(f, todo \ {p}, num_files, total_size)

get_copy_size(f, dir, path) ==
    LET r == Resolve(f, dir, path) IN
    IF r.ok THEN SizeLoop(f, {r.path}, 0, 0) ELSE <<0, 0>>

\* A &str is its UTF-8 bytes: a character of one byte ("a", "b") or of two
\* ("E", an accented letter). A byte is <<character, index in it>>.
Chars == {"a", "b", "E"}

Utf8Len(c) == IF c = "E" THEN 2 ELSE 1

RECURSIVE Utf8(_)
Utf8(name) ==
    IF name = <<>> THEN <<>>
    ELSE [i \in 1..Utf8Len(Head(name)) |-> <<Head(name), i>>] \o Utf8(Tail(name))

\* str::is_char_boundary: offset i of bytes b falls between two characters.
IsCharBoundary(b, i) ==
    \/ i = 0
    \/ i = Len(b)
    \/ i \in 1..(Len(b) - 1) /\ b[i + 1][2] = 1

Ellipsis == Utf8(<<".", ".", ".">>)

Panic == [panic |-> TRUE, val |-> <<>>]
Str(b) == [panic |-> FALSE, val |-> b]

\* trim_filename: name.len() is a count of bytes, and &name[..i] panics
\* when i is not a character boundary.
trim_filename(name, max_len) ==
    LET b == Utf8(name)
        ellipsis_len == Len(Ellipsis)
        remaining == max_len - ellipsis_len
        start_len == (remaining + 1) \div 2
        end_len == remaining \div 2
    IN  IF Len(b) <= max_len THEN Str(b)
        ELSE IF max_len <= ellipsis_len THEN Str(Ellipsis)
        ELSE IF ~IsCharBoundary(b, start_len) \/ ~IsCharBoundary(b, Len(b) - end_len)
        THEN Panic
        ELSE Str(SubSeq(b, 1, start_len) \o Ellipsis
                 \o SubSeq(b, Len(b) - end_len + 1, Len(b)))

----------------------------------------------------------------------------
(* Values of the state.                                                    *)

Units == IF entry.fn = "run" THEN 1..Len(sources) ELSE {1}

Ok(v) == [ok |-> TRUE, err |-> "", val |-> v]
Err(e) == [ok |-> FALSE, err |-> e, val |-> 0]

IntoItselfError == "cannot copy a directory into itself"
IoError == "io"

NoCopy ==
    [status |-> "idle", fn |-> "", from |-> <<>>, to |-> <<>>, src |-> <<>>,
     dst |-> <<>>, rpos |-> 0, wpos |-> 0, buf |-> <<>>, total_bytes |-> 0,
     bytes_since_sync |-> 0, unsynced_peak |-> 0, ops |-> <<"none", "none">>,
     unit_written |-> 0]

\* The record of the next copy of a unit (or of none); unit_written, the
\* blocks the unit has written in all its copies, goes on.
Renew(c, new) == [new EXCEPT !.unit_written = c.unit_written]


NoScan ==
    [stack |-> <<>>, p |-> <<>>, num_files |-> 0, total_size |-> 0,
     failed |-> {}, gone |-> <<>>]

NewCopy(fn, from, to) ==
    [NoCopy EXCEPT !.status = "running", !.fn = fn, !.from = from, !.to = to]

NewFrame(from, to) ==
    [from |-> from, to |-> to, dir |-> <<>>, todo |-> {}, seen |-> {}, cur |-> ""]

NoBar == [on |-> FALSE, len |-> 0, pos |-> 0]
Bar(len) == [on |-> TRUE, len |-> len, pos |-> 0]
\* An increment that stores the chunk's size over the position.
IncStore(bar, n) == IF bar.on THEN [bar EXCEPT !.pos = n] ELSE bar

\* pb.inc(n): an atomic add.
Inc(bar, n) == IF bar.on THEN [bar EXCEPT !.pos = @ + n] ELSE bar

Top(u) == stack[u][Len(stack[u])]

cfgVars == <<fs0, cwd, entry, sources, recursive, quiet, parallel>>
runVars == <<permits, has_failed, mainpc, slot, outcome>>
barVars == <<main_pb, file_pb>>

\* The unit accesses the filesystem.
Access(u) ==
    early' = [early EXCEPT ![u] = @ \/ (entry.fn = "run" /\ slot[u] = "none")]

\* An error that ends the entry it met and lets the walk go on.
FailSkipsEntry(u, e) ==
    /\ ret' = [ret EXCEPT ![u] = Err(e)]
    /\ stack' = stack
    /\ pc' = [pc EXCEPT ![u] = IF stack[u] = <<>> THEN "ret" ELSE "w_next"]

\* The call in progress fails: the error goes up through every `?` of the
\* enclosing copy_dir_recursive calls to the caller of the outermost one.
Fail(u, e) ==
    /\ ret' = [ret EXCEPT ![u] = Err(e)]
    /\ stack' = [stack EXCEPT ![u] = <<>>]
    /\ pc' = [pc EXCEPT ![u] = "ret"]

\* An I/O call that would succeed may fail all the same (a full disk, a
\* device error), at most MaxFaults times in a run.
Injected == Cardinality(hit) < MaxFaults

Spend(u, natural) == hit' = IF natural THEN hit ELSE hit \cup {u}

----------------------------------------------------------------------------
(* copy_file_with_progress / copy_file_with_dual_progress (src/src/copy.rs) *)
(* The two functions differ only in the progress bars they advance.        *)

Min(a, b) == IF a <= b THEN a ELSE b

\* cp.ops holds the last two operations on the destination file handle.
Log(ops, op) == <<ops[2], op>>

\* Where a call that returned Ok goes on: in the loop of the enclosing
\* copy_dir_recursive, or in the caller of the outermost call.
Resume(frames) == IF frames = <<>> THEN "ret" ELSE "w_next"

\* fs::File::open(from).await?
CopyOpen(u) ==
    /\ pc[u] = "c_open"
    /\ Access(u)
    /\ LET can == CanOpen(fs, cwd, cp[u].from) IN
       \/ /\ can
          /\ cp' = [cp EXCEPT ![u].src = Resolve(fs, cwd, cp[u].from).path]
          /\ pc' = [pc EXCEPT ![u] = "c_create"]
          /\ UNCHANGED <<ret, stack, hit>>
       \/ /\ ~can \/ Injected
          /\ Spend(u, ~can)
          /\ cp' = [cp EXCEPT ![u].status = "err"]
          /\ Fail(u, IoError)
    /\ UNCHANGED <<fs, writers, cfgVars, scan, runVars, barVars>>

\* fs::File::create(to).await?  The destination is created or truncated.
CopyCreate(u) ==
    /\ pc[u] = "c_create"
    /\ Access(u)
    /\ LET can == CanCreate(fs, cwd, cp[u].to)
           dst == Resolve(fs, cwd, cp[u].to).path
       IN
       \/ /\ can
          /\ fs' = Put(fs, dst, File(<<>>))
          /\ writers' = writers \cup {<<dst, u>>}
          /\ cp' = [cp EXCEPT ![u].dst = dst]
          /\ pc' = [pc EXCEPT ![u] = "c_read"]
          /\ UNCHANGED <<ret, stack, hit>>
       \/ /\ ~can \/ Injected
          /\ Spend(u, ~can)
          /\ cp' = [cp EXCEPT ![u].status = "err"]
          /\ Fail(u, IoError)
          /\ UNCHANGED <<fs, writers>>
    /\ UNCHANGED <<cfgVars, scan, runVars, barVars>>

\* source.read(&mut buffer).await?  and the test for the end of the file.
\* A read may return fewer bytes than the buffer holds.
CopyRead(u) ==
    /\ pc[u] = "c_read"
    /\ Access(u)
    /\ LET node == fs[cp[u].src]
           avail == Len(node.data) - cp[u].rpos
           can == node.kind = "file"
       IN
       \/ /\ can
          /\ avail > 0
          /\ \E n \in 1..Min(BufferBlocks, avail) :
                cp' = [cp EXCEPT ![u].buf = SubSeq(node.data, cp[u].rpos + 1,
                                                   cp[u].rpos + n),
                                 ![u].rpos = @ + n]
          /\ pc' = [pc EXCEPT ![u] = "c_write"]
          /\ UNCHANGED <<ret, stack, hit>>
       \/ /\ can
          /\ avail <= 0
          /\ pc' = [pc EXCEPT ![u] = "c_flush"]
          /\ UNCHANGED <<cp, ret, stack, hit>>
       \/ /\ ~can \/ Injected
          /\ Spend(u, ~can)
          /\ cp' = [cp EXCEPT ![u].status = "err"]
          /\ Fail(u, IoError)
    /\ UNCHANGED <<fs, writers, cfgVars, scan, runVars, barVars>>

Max(a, b) == IF a >= b THEN a ELSE b

\* A threshold test that lets the count sit on the threshold.
SyncDueLate(since) == since > SYNC_INTERVAL

\* if bytes_since_sync >= SYNC_INTERVAL
SyncDue(since) == since >= SYNC_INTERVAL

\* dest.write_all(&buffer[..bytes_read]).await?, the count of the bytes
\* written since the last sync, and dest.sync_data().await? once that count
\* reaches SYNC_INTERVAL. A write_all that fails has written k blocks of the
\* chunk, fewer than all of them; a sync_data fails after the whole chunk was
\* written.
CopyWrite(u) ==
    /\ pc[u] = "c_write"
    /\ Access(u)
    /\ LET c == cp[u]
           since == c.bytes_since_sync + Len(c.buf) * Block
           due == SyncDue(since)
           Written(k) == IF k = 0 THEN fs
                         ELSE Put(fs, c.dst, File(WriteAt(fs[c.dst].data, c.wpos,
                                                          SubSeq(c.buf, 1, k))))
       IN
       \/ /\ fs' = Written(Len(c.buf))
          /\ writers' = writers \cup {<<c.dst, u>>}
          /\ cp' = [cp EXCEPT ![u].wpos = @ + Len(c.buf),
                              ![u].unit_written = @ + Len(c.buf),
                              ![u].bytes_since_sync = IF due THEN 0 ELSE since,
                              ![u].unsynced_peak = Max(@, since),
                              ![u].ops = IF due THEN Log(Log(@, "write"), "sync_data")
                                          ELSE Log(@, "write")]
          /\ pc' = [pc EXCEPT ![u] = "c_inc"]
          /\ UNCHANGED <<ret, stack, hit>>
       \/ /\ Injected
          /\ Spend(u, FALSE)
          /\ \E k \in 0..(IF due THEN Len(c.buf) ELSE Len(c.buf) - 1) :
                /\ fs' = Written(k)
                /\ writers' = IF k = 0 THEN writers
                              ELSE writers \cup {<<c.dst, u>>}
                /\ cp' = [cp EXCEPT ![u].status = "err",
                                    ![u].wpos = @ + k,
                                    ![u].unit_written = @ + k,
                                    ![u].ops = IF k < Len(c.buf)
                                              THEN Log(@, "write_failed")
                                              ELSE Log(Log(@, "write"),
                                                       "sync_data_failed")]
          /\ Fail(u, IoError)
    /\ UNCHANGED <<cfgVars, scan, runVars, barVars>>

\* A chunk reported to the run-wide sink only.
CopyProgressMainOnly(u) ==
    /\ pc[u] = "c_inc"
    /\ LET n == Len(cp[u].buf) * Block IN
       /\ cp' = [cp EXCEPT ![u].total_bytes = @ + n, ![u].buf = <<>>]
       /\ main_pb' = Inc(main_pb, n)
       /\ file_pb' = file_pb
    /\ pc' = [pc EXCEPT ![u] = "c_read"]
    /\ UNCHANGED <<fs, writers, ret, stack, hit, early, cfgVars, scan, runVars>>

\* total_bytes += bytes_read and pb.inc(bytes_read) on every bar supplied.
CopyProgress(u) ==
    /\ pc[u] = "c_inc"
    /\ LET n == Len(cp[u].buf) * Block IN
       /\ cp' = [cp EXCEPT ![u].total_bytes = @ + n, ![u].buf = <<>>]
       /\ main_pb' = Inc(main_pb, n)
       /\ file_pb' = IF cp[u].fn = "copy_file_with_dual_progress"
                     THEN [file_pb EXCEPT ![u] = Inc(@, n)]
                     ELSE file_pb
    /\ pc' = [pc EXCEPT ![u] = "c_read"]
    /\ UNCHANGED <<fs, writers, ret, stack, hit, early, cfgVars, scan, runVars>>

\* A flush whose error is dropped instead of returned.
CopyFlushUnchecked(u) ==
    /\ pc[u] = "c_flush"
    /\ Access(u)
    /\ \/ /\ cp' = [cp EXCEPT ![u].ops = Log(@, "flush")]
          /\ UNCHANGED hit
       \/ /\ Injected
          /\ Spend(u, FALSE)
          /\ cp' = [cp EXCEPT ![u].ops = Log(@, "flush_failed")]
    /\ pc' = [pc EXCEPT ![u] = "c_sync_all"]
    /\ UNCHANGED <<fs, writers, ret, stack, cfgVars, scan, runVars, barVars>>

\* dest.flush().await?
CopyFlush(u) ==
    /\ pc[u] = "c_flush"
    /\ Access(u)
    /\ \/ /\ cp' = [cp EXCEPT ![u].ops = Log(@, "flush")]
          /\ pc' = [pc EXCEPT ![u] = "c_sync_all"]
          /\ UNCHANGED <<ret, stack, hit>>
       \/ /\ Injected
          /\ Spend(u, FALSE)
          /\ cp' = [cp EXCEPT ![u].status = "err",
                              ![u].ops = Log(@, "flush_failed")]
          /\ Fail(u, IoError)
    /\ UNCHANGED <<fs, writers, cfgVars, scan, runVars, barVars>>

\* dest.sync_all().await?; Ok(total_bytes)
CopySyncAll(u) ==
    /\ pc[u] = "c_sync_all"
    /\ Access(u)
    /\ \/ /\ cp' = [cp EXCEPT ![u].status = "ok",
                              ![u].ops = Log(@, "sync_all")]
          /\ ret' = [ret EXCEPT ![u] = Ok(cp[u].total_bytes)]
          /\ pc' = [pc EXCEPT ![u] = Resume(stack[u])]
          /\ UNCHANGED <<stack, hit>>
       \/ /\ Injected
          /\ Spend(u, FALSE)
          /\ cp' = [cp EXCEPT ![u].status = "err",
                              ![u].ops = Log(@, "sync_all_failed")]
          /\ Fail(u, IoError)
    /\ UNCHANGED <<fs, writers, cfgVars, scan, runVars, barVars>>


----------------------------------------------------------------------------
(* copy_dir_recursive (src/src/copy.rs)                                    *)

\* A check made only after the destination directory has been created.
WalkCheckAfterMkdir(u) ==
    /\ pc[u] = "w_check"
    /\ IF IntoItself(cwd, Top(u).from, Top(u).to)
       THEN /\ fs' = create_dir_all(fs, cwd, Top(u).to).fs
            /\ Fail(u, IntoItselfError)
       ELSE /\ pc' = [pc EXCEPT ![u] = "w_mkdir"]
            /\ UNCHANGED <<fs, ret, stack>>
    /\ UNCHANGED <<writers, cp, hit, early, cfgVars, scan, runVars, barVars>>

\* The self-containment check, before anything is touched.
WalkCheck(u) ==
    /\ pc[u] = "w_check"
    /\ IF IntoItself(cwd, Top(u).from, Top(u).to)
       THEN Fail(u, IntoItselfError)
       ELSE /\ pc' = [pc EXCEPT ![u] = "w_mkdir"]
            /\ UNCHANGED <<ret, stack>>
    /\ UNCHANGED <<fs, writers, cp, hit, early, cfgVars, scan, runVars, barVars>>

\* fs::create_dir_all(to).await?
WalkMkdir(u) ==
    /\ pc[u] = "w_mkdir"
    /\ Access(u)
    /\ LET r == create_dir_all(fs, cwd, Top(u).to) IN
       \/ /\ r.ok
          /\ fs' = r.fs
          /\ pc' = [pc EXCEPT ![u] = "w_readdir"]
          /\ UNCHANGED <<ret, stack, hit>>
       \/ /\ ~r.ok \/ Injected
          /\ Spend(u, ~r.ok)
          /\ Fail(u, IoError)
          /\ UNCHANGED fs
    /\ UNCHANGED <<writers, cp, cfgVars, scan, runVars, barVars>>

\* fs::read_dir(from).await?
WalkReadDir(u) ==
    /\ pc[u] = "w_readdir"
    /\ Access(u)
    /\ LET can == PathIsDir(fs, cwd, Top(u).from)
           dir == Resolve(fs, cwd, Top(u).from).path
       IN
       \/ /\ can
          /\ stack' = [stack EXCEPT ![u][Len(stack[u])] =
                          [@ EXCEPT !.dir = dir, !.todo = Children(fs, dir)]]
          /\ pc' = [pc EXCEPT ![u] = "w_next"]
          /\ UNCHANGED <<ret, hit>>
       \/ /\ ~can \/ Injected
          /\ Spend(u, ~can)
          /\ Fail(u, IoError)
    /\ UNCHANGED <<fs, writers, cp, cfgVars, scan, runVars, barVars>>

\* entries.next_entry().await?  The order is the filesystem's.  An entry
\* that appeared in the directory after read_dir may or may not be reported:
\* every entry that was there at read_dir is.
WalkNextEntry(u) ==
    /\ pc[u] = "w_next"
    /\ Access(u)
    /\ LET fr == Top(u) IN
       \/ /\ \E c \in Children(fs, fr.dir) \ fr.seen :
                stack' = [stack EXCEPT ![u][Len(stack[u])] =
                             [@ EXCEPT !.cur = c, !.seen = @ \cup {c},
                                       !.todo = @ \ {c}]]
          /\ pc' = [pc EXCEPT ![u] = "w_type"]
          /\ UNCHANGED <<ret, hit>>
       \/ /\ fr.todo = {}
          /\ stack' = [stack EXCEPT ![u] = Front(@)]
          /\ ret' = [ret EXCEPT ![u] = Ok(0)]
          /\ pc' = [pc EXCEPT ![u] = Resume(Front(stack[u]))]
          /\ UNCHANGED hit
       \/ /\ Injected
          /\ Spend(u, FALSE)
          /\ Fail(u, IoError)
    /\ cp' = [cp EXCEPT ![u] = Renew(@, NoCopy)]
    /\ UNCHANGED <<fs, writers, cfgVars, scan, runVars, barVars>>

\* A walker that builds the destination of a child inside the child.
WalkEntryNests(u) ==
    /\ pc[u] = "w_type"
    /\ Access(u)
    /\ LET fr == Top(u)
           entry_path == Append(fr.from, fr.cur)
           dest_path == Append(entry_path, fr.cur)
       IN
       /\ IF IsDirAt(fs, Append(fr.dir, fr.cur))
          THEN /\ stack' = [stack EXCEPT ![u] = Append(@, NewFrame(entry_path, dest_path))]
               /\ pc' = [pc EXCEPT ![u] = "w_check"]
               /\ UNCHANGED cp
          ELSE /\ cp' = [cp EXCEPT ![u] =
                           Renew(@, NewCopy("copy_file_with_progress",
                                            entry_path, dest_path))]
               /\ pc' = [pc EXCEPT ![u] = "c_open"]
               /\ UNCHANGED stack
       /\ UNCHANGED <<ret, hit>>
    /\ UNCHANGED <<fs, writers, cfgVars, scan, runVars, barVars>>

\* entry.file_type().await?.is_dir(): recurse into a directory, copy
\* anything else as a file.
WalkEntry(u) ==
    /\ pc[u] = "w_type"
    /\ Access(u)
    /\ LET fr == Top(u)
           entry_path == Append(fr.from, fr.cur)
           dest_path == Append(fr.to, fr.cur)
       IN
       \/ /\ IF IsDirAt(fs, Append(fr.dir, fr.cur))
             THEN /\ stack' = [stack EXCEPT ![u] = Append(@, NewFrame(entry_path, dest_path))]
                  /\ pc' = [pc EXCEPT ![u] = "w_check"]
                  /\ UNCHANGED cp
             ELSE /\ cp' = [cp EXCEPT ![u] =
                              Renew(@, NewCopy("copy_file_with_progress",
                                               entry_path, dest_path))]
                  /\ pc' = [pc EXCEPT ![u] = "c_open"]
                  /\ UNCHANGED stack
          /\ UNCHANGED <<ret, hit>>
       \/ /\ Injected
          /\ Spend(u, FALSE)
          /\ Fail(u, IoError)
          /\ UNCHANGED cp
    /\ UNCHANGED <<fs, writers, cfgVars, scan, runVars, barVars>>


----------------------------------------------------------------------------
(* run (src/src/cli.rs)                                                    *)

Destination == <<RootDir, "d">>

\* destination.join(source.file_name().unwrap_or(source_str))
DestPath(source) ==
    Join(Destination, IF HasFileName(source) THEN FileName(source) ELSE source)

walkVars == <<stack, cp, ret>>

\* if !destination.exists() { exit(1) }  if !destination.is_dir() { exit(1) }
CheckDestination ==
    /\ mainpc = "dest"
    /\ mainpc' = IF PathExists(fs, cwd, Destination) /\ PathIsDir(fs, cwd, Destination)
                 THEN "prescan" ELSE "exit_dest"
    /\ UNCHANGED <<fs, writers, pc, hit, early, cfgVars, scan, walkVars, barVars,
                   permits, has_failed, slot, outcome>>

\* The size pre-scan that sizes the run-wide progress bar (not in quiet mode).
Prescan ==
    /\ mainpc = "prescan"
    /\ main_pb' =
          IF quiet THEN NoBar
          ELSE LET counted == { i \in 1..Len(sources) :
                                    /\ PathExists(fs, cwd, sources[i])
                                    /\ ~(PathIsDir(fs, cwd, sources[i]) /\ ~recursive) }
                   RECURSIVE Sum(_)
                   Sum(S) == IF S = {} THEN 0
                             ELSE LET i == CHOOSE j \in S : TRUE IN
                                  get_copy_size(fs, cwd, sources[i])[2] + Sum(S \ {i})
               IN Bar(Sum(counted) * Block)
    /\ mainpc' = "spawn"
    /\ UNCHANGED <<fs, writers, pc, hit, early, file_pb, cfgVars, scan, walkVars,
                   permits, has_failed, slot, outcome>>

\* The loop that spawns one task per source; none is awaited here.
SpawnTasks ==
    /\ mainpc = "spawn"
    /\ pc' = [u \in Units |-> "acquire"]
    /\ mainpc' = "join"
    /\ UNCHANGED <<fs, writers, hit, early, cfgVars, scan, walkVars, barVars,
                   permits, has_failed, slot, outcome>>

\* An acquire that does not wait for a free permit.
AcquireNoWait(u) ==
    /\ pc[u] = "acquire"
    /\ permits' = permits - 1
    /\ slot' = [slot EXCEPT ![u] = "held"]
    /\ pc' = [pc EXCEPT ![u] = "exists"]
    /\ UNCHANGED <<fs, writers, hit, early, cfgVars, scan, walkVars, barVars,
                   has_failed, mainpc, outcome>>

\* let _permit = sem.acquire().await
Acquire(u) ==
    /\ pc[u] = "acquire"
    /\ permits > 0
    /\ permits' = permits - 1
    /\ slot' = [slot EXCEPT ![u] = "held"]
    /\ pc' = [pc EXCEPT ![u] = "exists"]
    /\ UNCHANGED <<fs, writers, hit, early, cfgVars, scan, walkVars, barVars,
                   has_failed, mainpc, outcome>>

\* A rejection that leaves the flag alone.
RejectUnflagged(u, why) ==
    /\ UNCHANGED has_failed
    /\ outcome' = [outcome EXCEPT ![u] = why]
    /\ pc' = [pc EXCEPT ![u] = "release"]

\* The unit ends without copying: the flag is set and the task returns.
Reject(u, why) ==
    /\ has_failed' = TRUE
    /\ outcome' = [outcome EXCEPT ![u] = why]
    /\ pc' = [pc EXCEPT ![u] = "release"]

\* An existence check without its `return`: the unit goes on.
CheckExistsNoReturn(u) ==
    /\ pc[u] = "exists"
    /\ Access(u)
    /\ IF PathExists(fs, cwd, sources[u])
       THEN UNCHANGED <<has_failed, outcome>>
       ELSE /\ has_failed' = TRUE
            /\ outcome' = [outcome EXCEPT ![u] = "missing"]
    /\ pc' = [pc EXCEPT ![u] = "is_dir"]
    /\ UNCHANGED <<fs, writers, hit, cfgVars, scan, walkVars, barVars,
                   permits, mainpc, slot>>

\* if !source.exists()
CheckExists(u) ==
    /\ pc[u] = "exists"
    /\ Access(u)
    /\ IF PathExists(fs, cwd, sources[u])
       THEN /\ pc' = [pc EXCEPT ![u] = "is_dir"]
            /\ UNCHANGED <<has_failed, outcome>>
       ELSE Reject(u, "missing")
    /\ UNCHANGED <<fs, writers, hit, cfgVars, scan, walkVars, barVars,
                   permits, mainpc, slot>>

\* if source.is_dir() && !recursive
CheckRecursive(u) ==
    /\ pc[u] = "is_dir"
    /\ Access(u)
    /\ IF PathIsDir(fs, cwd, sources[u]) /\ ~recursive
       THEN Reject(u, "directory")
       ELSE /\ pc' = [pc EXCEPT ![u] = IF quiet THEN "is_file" ELSE "bar"]
            /\ UNCHANGED <<has_failed, outcome>>
    /\ UNCHANGED <<fs, writers, hit, cfgVars, scan, walkVars, barVars,
                   permits, mainpc, slot>>

\* The unit's own progress bar (not in quiet mode).
NewFileBar(u) ==
    /\ pc[u] = "bar"
    /\ Access(u)
    /\ file_pb' = [file_pb EXCEPT ![u] =
                      Bar(IF PathIsFile(fs, cwd, sources[u])
                          THEN MetadataLen(fs, cwd, sources[u]) * Block
                          ELSE 0)]
    /\ pc' = [pc EXCEPT ![u] = "is_file"]
    /\ UNCHANGED <<fs, writers, hit, cfgVars, scan, walkVars, main_pb, runVars>>

\* A task that hands its copy to a further task and gives its permit back.
DispatchDetached(u) ==
    /\ pc[u] = "is_file"
    /\ Access(u)
    /\ IF PathIsFile(fs, cwd, sources[u])
       THEN /\ cp' = [cp EXCEPT ![u] =
                        Renew(@, NewCopy("copy_file_with_dual_progress",
                                         sources[u], DestPath(sources[u])))]
            /\ pc' = [pc EXCEPT ![u] = "c_open"]
            /\ UNCHANGED <<stack, outcome>>
       ELSE IF PathIsDir(fs, cwd, sources[u])
       THEN /\ stack' = [stack EXCEPT ![u] =
                            <<NewFrame(sources[u], DestPath(sources[u]))>>]
            /\ pc' = [pc EXCEPT ![u] = "w_check"]
            /\ UNCHANGED <<cp, outcome>>
       ELSE /\ outcome' = [outcome EXCEPT ![u] = "skipped"]
            /\ pc' = [pc EXCEPT ![u] = "release"]
            /\ UNCHANGED <<cp, stack>>
    /\ permits' = permits + 1
    /\ slot' = [slot EXCEPT ![u] = "released"]
    /\ UNCHANGED <<fs, writers, hit, ret, cfgVars, scan, barVars,
                   has_failed, mainpc>>

\* if source.is_file() { copy_file_with_dual_progress(source, dest_path) }
\* else if source.is_dir() { copy_dir_recursive(source, dest_path) }
Dispatch(u) ==
    /\ pc[u] = "is_file"
    /\ Access(u)
    /\ IF PathIsFile(fs, cwd, sources[u])
       THEN /\ cp' = [cp EXCEPT ![u] =
                        Renew(@, NewCopy("copy_file_with_dual_progress",
                                         sources[u], DestPath(sources[u])))]
            /\ pc' = [pc EXCEPT ![u] = "c_open"]
            /\ UNCHANGED <<stack, outcome>>
       ELSE IF PathIsDir(fs, cwd, sources[u])
       THEN /\ stack' = [stack EXCEPT ![u] =
                            <<NewFrame(sources[u], DestPath(sources[u]))>>]
            /\ pc' = [pc EXCEPT ![u] = "w_check"]
            /\ UNCHANGED <<cp, outcome>>
       ELSE /\ outcome' = [outcome EXCEPT ![u] = "skipped"]
            /\ pc' = [pc EXCEPT ![u] = "release"]
            /\ UNCHANGED <<cp, stack>>
    /\ UNCHANGED <<fs, writers, hit, ret, cfgVars, scan, barVars,
                   permits, has_failed, mainpc, slot>>

\* A task whose error path ends with the permit still held.
UnitReturnLeaks(u) ==
    /\ pc[u] = "ret"
    /\ entry.fn = "run"
    /\ IF ret[u].ok
       THEN /\ outcome' = [outcome EXCEPT ![u] = "copied"]
            /\ UNCHANGED has_failed
       ELSE /\ outcome' = [outcome EXCEPT ![u] = "failed"]
            /\ has_failed' = TRUE
    /\ pc' = [pc EXCEPT ![u] = IF ret[u].ok THEN "release" ELSE "done"]
    /\ cp' = [cp EXCEPT ![u] = Renew(@, NoCopy)]
    /\ UNCHANGED <<fs, writers, hit, early, cfgVars, scan, stack, ret, barVars,
                   permits, mainpc, slot>>

\* The match on the copy's Result: Err sets the flag.
UnitReturn(u) ==
    /\ pc[u] = "ret"
    /\ entry.fn = "run"
    /\ IF ret[u].ok
       THEN /\ outcome' = [outcome EXCEPT ![u] = "copied"]
            /\ UNCHANGED has_failed
       ELSE /\ outcome' = [outcome EXCEPT ![u] = "failed"]
            /\ has_failed' = TRUE
    /\ pc' = [pc EXCEPT ![u] = "release"]
    /\ cp' = [cp EXCEPT ![u] = Renew(@, NoCopy)]
    /\ UNCHANGED <<fs, writers, hit, early, cfgVars, scan, stack, ret, barVars,
                   permits, mainpc, slot>>

\* A task that ends without giving its permit back.
ReleaseKeepsPermit(u) ==
    /\ pc[u] = "release"
    /\ slot' = [slot EXCEPT ![u] = "released"]
    /\ pc' = [pc EXCEPT ![u] = "done"]
    /\ UNCHANGED <<fs, writers, hit, early, cfgVars, scan, walkVars, barVars,
                   permits, has_failed, mainpc, outcome>>

\* The task ends and _permit is dropped.
Release(u) ==
    /\ pc[u] = "release"
    /\ permits' = permits + 1
    /\ slot' = [slot EXCEPT ![u] = "released"]
    /\ pc' = [pc EXCEPT ![u] = "done"]
    /\ UNCHANGED <<fs, writers, hit, early, cfgVars, scan, walkVars, barVars,
                   has_failed, mainpc, outcome>>

\* for task in tasks { task.await }
JoinTasks ==
    /\ mainpc = "join"
    /\ \A u \in Units : pc[u] = "done"
    /\ mainpc' = "report"
    /\ UNCHANGED <<fs, writers, pc, hit, early, cfgVars, scan, walkVars, barVars,
                   permits, has_failed, slot, outcome>>

\* if *has_failed.lock().unwrap() { std::process::exit(1) }
Exit ==
    /\ mainpc = "report"
    /\ mainpc' = IF has_failed THEN "exit1" ELSE "exit0"
    /\ UNCHANGED <<fs, writers, pc, hit, early, cfgVars, scan, walkVars, barVars,
                   permits, has_failed, slot, outcome>>


----------------------------------------------------------------------------
(* Initial states of a run of the scheduler.                               *)

\* Subtrees, as functions from a path relative to the subtree's root.
Nothing == [r \in {} |-> Dir]
FileA == (<<>> :> File(<<1>>))
FileB == (<<>> :> File(<<2, 1>>))
EmptyDir == (<<>> :> Dir)
FlatDir == (<<>> :> Dir) @@ (<<"f">> :> File(<<2>>))
DeepDir == (<<>> :> Dir) @@ (<<"f">> :> File(<<1>>)) @@ (<<"y">> :> Dir)
ASocket == (<<>> :> Socket)

Mount(base, tree) == [q \in { base \o r : r \in DOMAIN tree } |->
                         tree[SubSeq(q, Len(base) + 1, Len(q))]]

\* The directories every initial filesystem has: the destination /d and
\* two directories /s and /t that hold sources.
Skeleton ==
    (Root :> Dir) @@ (Destination :> Dir) @@ (<<RootDir, "s">> :> Dir)
    @@ (<<RootDir, "t">> :> Dir)

SX == <<RootDir, "s", "x">>
TX == <<RootDir, "t", "x">>
TY == <<RootDir, "t", "y">>
DX == <<RootDir, "d", "x">>

\* What a run may be given as a source.
SourceArgs == {SX, TX, TY, DX, Destination}

SourceLists ==
    UNION { [1..n -> SourceArgs] : n \in 1..MaxSources }

Range(s) == { s[i] : i \in DOMAIN s }

\* The initial filesystems: a subtree at each of /s/x, /t/x, /t/y and /d/x.
\* A place that is not a source of the run and is not in the destination
\* is left empty, as nothing reads it.  In the last two the destination is
\* a file, or is missing.
InitialTrees(srcs) ==
    { Skeleton @@ Mount(SX, sx) @@ Mount(TX, tx) @@ Mount(TY, ty) @@ Mount(DX, dx) :
        sx \in IF SX \in Range(srcs) THEN {Nothing, FileA, DeepDir, ASocket} ELSE {Nothing},
        tx \in IF TX \in Range(srcs) THEN {Nothing, FileB, FlatDir} ELSE {Nothing},
        ty \in IF TY \in Range(srcs) THEN {FileB} ELSE {Nothing},
        dx \in {Nothing, FileA, EmptyDir} }
    \cup { Put(Root :> Dir, Destination, File(<<1>>)), (Root :> Dir) }

\* thread::available_parallelism() of the machine.
AvailableParallelism == 8

Requested == {0, 1, 8}

InitUnits(n) ==
    /\ pc = [u \in 1..n |-> "idle"]
    /\ slot = [u \in 1..n |-> "none"]
    /\ stack = [u \in 1..n |-> <<>>]
    /\ cp = [u \in 1..n |-> NoCopy]
    /\ ret = [u \in 1..n |-> Ok(0)]
    /\ outcome = [u \in 1..n |-> "none"]
    /\ early = [u \in 1..n |-> FALSE]
    /\ file_pb = [u \in 1..n |-> NoBar]
    /\ main_pb = NoBar
    /\ has_failed = FALSE
    /\ writers = {}

\* The state run starts from, once its arguments and the filesystem are
\* given.
InitRun ==
    /\ entry = [fn |-> "run", from |-> <<>>, to |-> <<>>]
    /\ cwd = Root
    /\ fs = fs0
    /\ recursive \in BOOLEAN
    /\ quiet \in BOOLEAN
    /\ \E p \in Requested : parallel = Min(p, AvailableParallelism)
    /\ permits = parallel
    /\ hit = {}
    /\ mainpc = "dest"
    /\ scan = NoScan
    /\ InitUnits(Len(sources))

Init ==
    /\ sources \in SourceLists
    /\ fs0 \in InitialTrees(sources)
    /\ InitRun

Next ==
    \/ CheckDestination
    \/ Prescan
    \/ SpawnTasks
    \/ JoinTasks
    \/ Exit
    \/ \E u \in Units : Acquire(u)
    \/ \E u \in Units : CheckExists(u)
    \/ \E u \in Units : CheckRecursive(u)
    \/ \E u \in Units : NewFileBar(u)
    \/ \E u \in Units : Dispatch(u)
    \/ \E u \in Units : UnitReturn(u)
    \/ \E u \in Units : Release(u)
    \/ \E u \in Units : WalkCheck(u)
    \/ \E u \in Units : WalkMkdir(u)
    \/ \E u \in Units : WalkReadDir(u)
    \/ \E u \in Units : WalkNextEntry(u)
    \/ \E u \in Units : WalkEntry(u)
    \/ \E u \in Units : CopyOpen(u)
    \/ \E u \in Units : CopyCreate(u)
    \/ \E u \in Units : CopyRead(u)
    \/ \E u \in Units : CopyWrite(u)
    \/ \E u \in Units : CopyProgress(u)
    \/ \E u \in Units : CopyFlush(u)
    \/ \E u \in Units : CopySyncAll(u)

Spec == Init /\ [][Next]_vars

SmallDir == (<<>> :> Dir) @@ (<<"f">> :> File(<<1>>))

\* The runs whose sources are /s/x and /t/x: /s/x is missing or a directory
\* with a file in it, /t/x is missing or a file.
InitFair ==
    /\ sources \in UNION { [1..n -> {SX, TX}] : n \in 1..MaxSources }
    /\ fs0 \in { Skeleton @@ Mount(SX, sx) @@ Mount(TX, tx) :
                   sx \in IF SX \in Range(sources) THEN {Nothing, SmallDir} ELSE {Nothing},
                   tx \in IF TX \in Range(sources) THEN {Nothing, FileA} ELSE {Nothing} }
                \cup { (Root :> Dir) }
    /\ InitRun

\* The runtime keeps polling the tasks that can make progress, and every
\* operating-system call returns: a run does not stop while a step is
\* possible.
FairSpec == InitFair /\ [][Next]_vars /\ WF_vars(Next)

----------------------------------------------------------------------------
(* Direct calls of copy_dir_recursive and of the two file copiers, as the  *)
(* tests of src/tests/copy_tests.rs make them.                             *)

\* The call returns to the test.
TestReturn(u) ==
    /\ pc[u] = "ret"
    /\ entry.fn # "run"
    /\ pc' = [pc EXCEPT ![u] = "returned"]
    /\ UNCHANGED <<fs, writers, hit, early, cfgVars, scan, walkVars, barVars, runVars>>

InitDirect ==
    /\ sources = <<>>
    /\ recursive = FALSE
    /\ quiet = TRUE
    /\ parallel = 0
    /\ permits = 0
    /\ mainpc = "test"
    /\ hit = {}
    /\ slot = [u \in {1} |-> "none"]
    /\ ret = [u \in {1} |-> Ok(0)]
    /\ outcome = [u \in {1} |-> "none"]
    /\ early = [u \in {1} |-> FALSE]
    /\ has_failed = FALSE
    /\ writers = {}

PathComponents == {"a", "b", CurDir, ParentDir}

\* The path arguments: absolute and relative, of at most MaxArgLen components.
RelativeArgs == UNION { [1..n -> PathComponents] : n \in 1..MaxArgLen }
PathArgs == RelativeArgs \cup {Root} \cup { Root \o r : r \in RelativeArgs }

A == <<RootDir, "a">>
B == <<RootDir, "b">>

\* /a holds a file and a directory with a file in it; /b varies.
SourceTree ==
    (<<>> :> Dir) @@ (<<"a">> :> File(<<1>>)) @@ (<<"b">> :> Dir)
    @@ (<<"b", "a">> :> File(<<2, 1>>))

WalkTrees ==
    { (Root :> Dir) @@ Mount(A, SourceTree) @@ Mount(B, b) :
        b \in { Nothing, EmptyDir, FileA,
                (<<>> :> Dir) @@ (<<"a">> :> File(<<2, 1>>)),
                (<<>> :> Dir) @@ (<<"b">> :> File(<<2>>)) } }

InitWalk ==
    /\ InitDirect
    /\ cwd = A
    /\ fs0 \in WalkTrees
    /\ fs = fs0
    /\ \E from \in PathArgs, to \in PathArgs :
          /\ entry = [fn |-> "copy_dir_recursive", from |-> from, to |-> to]
          /\ stack = [u \in {1} |-> <<NewFrame(from, to)>>]
    /\ pc = [u \in {1} |-> "w_check"]
    /\ cp = [u \in {1} |-> NoCopy]
    /\ main_pb \in {NoBar, Bar(0)}
    /\ file_pb = [u \in {1} |-> NoBar]
    /\ scan = NoScan

NextWalk ==
    \/ TestReturn(1)
    \/ WalkCheck(1)
    \/ WalkMkdir(1)
    \/ WalkReadDir(1)
    \/ WalkNextEntry(1)
    \/ WalkEntry(1)
    \/ CopyOpen(1)
    \/ CopyCreate(1)
    \/ CopyRead(1)
    \/ CopyWrite(1)
    \/ CopyProgress(1)
    \/ CopyFlush(1)
    \/ CopySyncAll(1)

WalkSpec == InitWalk /\ [][NextWalk]_vars

\* A file of n blocks.
Pattern(n) == [i \in 1..n |-> 1 + (i % 2)]

AF == <<RootDir, "a", "f">>
BF == <<RootDir, "b", "f">>

\* /a/f is the source, of 0 to MaxFileBlocks blocks; /b/f is absent, a
\* longer file, or a directory.
CopyTrees ==
    { (Root :> Dir) @@ (A :> Dir) @@ (B :> Dir) @@ (AF :> File(Pattern(n)))
      @@ Mount(BF, b) :
        n \in 0..MaxFileBlocks,
        b \in { Nothing, (<<>> :> File(Zeros(MaxFileBlocks + 1))), EmptyDir } }

\* The destinations: /b/f, the source itself, a path in a missing directory.
CopyTargets == { BF, AF, <<RootDir, "c", "f">> }

InitCopy ==
    /\ InitDirect
    /\ cwd = Root
    /\ fs0 \in CopyTrees
    /\ fs = fs0
    /\ \E fn \in {"copy_file_with_progress", "copy_file_with_dual_progress"},
          to \in CopyTargets :
          /\ entry = [fn |-> fn, from |-> AF, to |-> to]
          /\ cp = [u \in {1} |-> NewCopy(fn, AF, to)]
          /\ file_pb \in IF fn = "copy_file_with_dual_progress"
                         THEN [{1} -> {NoBar, Bar(0)}] ELSE {[u \in {1} |-> NoBar]}
    /\ stack = [u \in {1} |-> <<>>]
    /\ pc = [u \in {1} |-> "c_open"]
    /\ main_pb \in {NoBar, Bar(0)}
    /\ scan = NoScan

NextCopy ==
    \/ TestReturn(1)
    \/ CopyOpen(1)
    \/ CopyCreate(1)
    \/ CopyRead(1)
    \/ CopyWrite(1)
    \/ CopyProgress(1)
    \/ CopyFlush(1)
    \/ CopySyncAll(1)

CopySpec == InitCopy /\ [][NextCopy]_vars

----------------------------------------------------------------------------
(* get_copy_size (src/src/utils.rs), one call, step by step, on a tree     *)
(* that another process may change under it.                               *)

\* The orders in which read_dir may yield the names of S.
Orders(S) ==
    { s \in [1..Cardinality(S) -> S] :
        \A i, j \in 1..Cardinality(S) : i # j => s[i] # s[j] }

\* while let Some(p) = stack.pop(): p.is_dir(), else p.is_file() and
\* num_files += 1; the loop ends with (num_files, total_size).
SizePop(u) ==
    /\ pc[u] = "s_pop"
    /\ IF scan.stack = <<>>
       THEN /\ ret' = [ret EXCEPT ![u] = Ok(<<scan.num_files, scan.total_size>>)]
            /\ pc' = [pc EXCEPT ![u] = "ret"]
            /\ UNCHANGED scan
       ELSE LET p == Last(scan.stack) IN
            /\ scan' = [scan EXCEPT !.stack = Front(@), !.p = p,
                                    !.num_files = IF ~PathIsDir(fs, cwd, p)
                                                     /\ PathIsFile(fs, cwd, p)
                                                  THEN @ + 1 ELSE @]
            /\ pc' = [pc EXCEPT ![u] = IF PathIsDir(fs, cwd, p) THEN "s_read_dir"
                                       ELSE IF PathIsFile(fs, cwd, p) THEN "s_meta"
                                       ELSE "s_pop"]
            /\ UNCHANGED ret
    /\ UNCHANGED <<fs, writers, hit, early, cfgVars, stack, cp, barVars, runVars>>

\* A traversal that leaves out the last entry read_dir yields.
SizeReadDirDropsLast(u) ==
    /\ pc[u] = "s_read_dir"
    /\ \E order \in Orders(Children(fs, Resolve(fs, cwd, scan.p).path)) :
          scan' = [scan EXCEPT !.stack =
                      @ \o [i \in 1..(Len(order) - 1) |-> Append(scan.p, order[i])]]
    /\ pc' = [pc EXCEPT ![u] = "s_pop"]
    /\ UNCHANGED <<fs, writers, hit, early, cfgVars, walkVars, barVars, runVars>>

\* if let Ok(mut entries) = fs::read_dir(&p).await: every entry that
\* next_entry yields is pushed; an error of read_dir pushes nothing, an
\* error of next_entry ends the inner loop with the entries pushed so far.
SizeReadDir(u) ==
    /\ pc[u] = "s_read_dir"
    /\ LET r == Resolve(fs, cwd, scan.p)
           Push(order, k) == [i \in 1..k |-> Append(scan.p, order[i])]
       IN
       IF r.ok /\ IsDirAt(fs, r.path)
       THEN \E order \in Orders(Children(fs, r.path)) :
               \/ /\ scan' = [scan EXCEPT !.stack = @ \o Push(order, Len(order))]
                  /\ UNCHANGED hit
               \/ /\ Injected
                  /\ Spend(u, FALSE)
                  /\ \E k \in 0..(Len(order) - 1) :
                        scan' = [scan EXCEPT !.stack = @ \o Push(order, k),
                                             !.failed = @ \cup {<<"next_entry", scan.p>>}]
               \/ /\ Injected
                  /\ Spend(u, FALSE)
                  /\ scan' = [scan EXCEPT !.failed = @ \cup {<<"read_dir", scan.p>>}]
       ELSE /\ scan' = [scan EXCEPT !.failed = @ \cup {<<"read_dir", scan.p>>}]
            /\ UNCHANGED hit
    /\ pc' = [pc EXCEPT ![u] = "s_pop"]
    /\ UNCHANGED <<fs, writers, early, cfgVars, walkVars, barVars, runVars>>

\* A lookup that takes the file out of the count when it fails.
SizeMetadataUncounts(u) ==
    /\ pc[u] = "s_meta"
    /\ IF PathExists(fs, cwd, scan.p)
       THEN scan' = [scan EXCEPT !.total_size = @ + MetadataLen(fs, cwd, scan.p)]
       ELSE scan' = [scan EXCEPT !.failed = @ \cup {<<"metadata", scan.p>>},
                                 !.num_files = @ - 1]
    /\ pc' = [pc EXCEPT ![u] = "s_pop"]
    /\ UNCHANGED <<fs, writers, hit, early, cfgVars, walkVars, barVars, runVars>>

\* if let Ok(meta) = fs::metadata(&p).await { total_size += meta.len() }
SizeMetadata(u) ==
    /\ pc[u] = "s_meta"
    /\ \/ /\ PathExists(fs, cwd, scan.p)
          /\ scan' = [scan EXCEPT !.total_size = @ + MetadataLen(fs, cwd, scan.p)]
          /\ UNCHANGED hit
       \/ /\ PathExists(fs, cwd, scan.p)
          /\ Injected
          /\ Spend(u, FALSE)
          /\ scan' = [scan EXCEPT !.failed = @ \cup {<<"metadata", scan.p>>}]
       \/ /\ ~PathExists(fs, cwd, scan.p)
          /\ scan' = [scan EXCEPT !.failed = @ \cup {<<"metadata", scan.p>>}]
          /\ UNCHANGED hit
    /\ pc' = [pc EXCEPT ![u] = "s_pop"]
    /\ UNCHANGED <<fs, writers, early, cfgVars, walkVars, barVars, runVars>>

\* Another process removes an entry, with all below it, while the
\* traversal runs; gone tells the entry and where the traversal had it:
\* "checked" between p.is_file() (or p.is_dir()) and the call that follows,
\* "enumerated" on the stack, "other" before or after those.
Disappear ==
    /\ entry.fn = "get_copy_size"
    /\ pc[1] \in {"s_pop", "s_read_dir", "s_meta"}
    /\ scan.gone = <<>>
    /\ \E q \in DOMAIN fs :
          /\ StartsWith(q, entry.from)
          /\ fs' = [r \in { r \in DOMAIN fs : ~StartsWith(r, q) } |-> fs[r]]
          /\ scan' = [scan EXCEPT !.gone =
                         <<q, fs[q].kind,
                           IF pc[1] # "s_pop" /\ scan.p = q THEN "checked"
                           ELSE IF q \in Range(scan.stack) THEN "enumerated"
                           ELSE "other">>]
    /\ UNCHANGED <<writers, pc, hit, early, cfgVars, walkVars, barVars, runVars>>

\* The trees of a call: /a is missing, a file, a socket, or a directory
\* of up to two levels.
Leaves == { Nothing, (<<>> :> File(<<>>)), FileA, FileB, ASocket }

Level1 ==
    { EmptyDir @@ Mount(<<"f">>, f) @@ Mount(<<"g">>, g) : f \in Leaves, g \in Leaves }

Level2 ==
    { EmptyDir @@ Mount(<<"f">>, f) @@ Mount(<<"y">>, y) :
        f \in {Nothing, FileB}, y \in Level1 }

SizeTrees ==
    { (Root :> Dir) @@ Mount(A, t) : t \in Leaves \cup Level1 \cup Level2 }

InitSize ==
    /\ sources = <<>>
    /\ recursive = FALSE
    /\ quiet = TRUE
    /\ parallel = 0
    /\ permits = 0
    /\ mainpc = "test"
    /\ hit = {}
    /\ slot = [u \in {1} |-> "none"]
    /\ ret = [u \in {1} |-> Ok(<<0, 0>>)]
    /\ outcome = [u \in {1} |-> "none"]
    /\ early = [u \in {1} |-> FALSE]
    /\ has_failed = FALSE
    /\ writers = {}
    /\ cwd = Root
    /\ fs0 \in SizeTrees
    /\ fs = fs0
    /\ entry = [fn |-> "get_copy_size", from |-> A, to |-> <<>>]
    /\ scan = [NoScan EXCEPT !.stack = <<A>>]
    /\ pc = [u \in {1} |-> "s_pop"]
    /\ stack = [u \in {1} |-> <<>>]
    /\ cp = [u \in {1} |-> NoCopy]
    /\ main_pb = NoBar
    /\ file_pb = [u \in {1} |-> NoBar]

NextSize ==
    \/ TestReturn(1)
    \/ SizePop(1)
    \/ SizeReadDir(1)
    \/ SizeMetadata(1)
    \/ Disappear

SizeSpec == InitSize /\ [][NextSize]_vars

\* The call is the only task of its runtime: it is scheduled until it ends.
SizeFairSpec == SizeSpec /\ WF_vars(NextSize)

----------------------------------------------------------------------------
(* trim_filename (src/src/utils.rs), one call.                             *)

Names == UNION { [1..n -> Chars] : n \in 0..MaxNameLen }

\* let display_name = trim_filename(file_name, max_len)
TrimCall(u) ==
    /\ pc[u] = "t_call"
    /\ scan' = [scan EXCEPT !.p = trim_filename(entry.from, entry.max_len)]
    /\ pc' = [pc EXCEPT ![u] = IF scan'.p.panic THEN "panicked" ELSE "ret"]
    /\ UNCHANGED <<fs, writers, hit, early, cfgVars, walkVars, barVars, runVars>>

InitTrim ==
    /\ InitDirect
    /\ cwd = Root
    /\ fs0 = (Root :> Dir)
    /\ fs = fs0
    /\ \E name \in Names, max_len \in 0..MaxWidth :
          entry = [fn |-> "trim_filename", from |-> name, to |-> <<>>,
                   max_len |-> max_len]
    /\ scan = NoScan
    /\ pc = [u \in {1} |-> "t_call"]
    /\ stack = [u \in {1} |-> <<>>]
    /\ cp = [u \in {1} |-> NoCopy]
    /\ main_pb = NoBar
    /\ file_pb = [u \in {1} |-> NoBar]

NextTrim ==
    \/ TestReturn(1)
    \/ TrimCall(1)

TrimSpec == InitTrim /\ [][NextTrim]_vars

----------------------------------------------------------------------------
(* Properties of run.                                                      *)

Held == { u \in Units : slot[u] = "held" }

Finished == mainpc \in {"report", "exit0", "exit1"}

FailedOutcomes == {"missing", "directory", "failed"}

\* C1: at most `parallel` units hold a slot at any time, and no unit touches
\* the filesystem (exists, metadata, open, create, read, write) before it
\* holds its slot.
C1_SlotsBoundWork ==
    /\ Cardinality(Held) <= parallel
    /\ \A u \in Units : ~early[u]

\* With one slot and two sources, one unit is writing its copy while the
\* other waits at the semaphore.
C1_OneWritesOneWaits ==
    /\ parallel = 1
    /\ \E u, v \in Units :
          /\ pc[u] = "c_write" /\ slot[u] = "held"
          /\ pc[v] = "acquire" /\ slot[v] = "none"

\* C2: no destination path is created or written by two different units of
\* the same run.
C2_WritersDisjoint ==
    \A w1, w2 \in writers : w1[1] = w2[1] => w1[2] = w2[2]

\* C5: once the scheduler has joined every unit, the flag is true exactly
\* when some entry was missing, was a directory without --recursive, or had
\* its copy return an error; the flag never goes back to false.
C5_FlagIffFailure ==
    /\ [](Finished => (has_failed <=> \E u \in Units : outcome[u] \in FailedOutcomes))
    /\ [](mainpc = "exit1" => has_failed)
    /\ [](mainpc = "exit0" => ~has_failed)
    /\ [][has_failed => has_failed']_vars

\* A run that ends with status 1 after one copy succeeded and one entry was
\* rejected.
C5_MixedRunExitsOne ==
    /\ mainpc = "exit1"
    /\ \E u, v \in Units :
          /\ outcome[u] = "copied"
          /\ outcome[v] \in {"missing", "directory"}

\* The entry is a regular file outside the destination directory, nothing
\* but a regular file is in the way at its target, and no I/O fault hits
\* its own copy.
ValidFile(a) ==
    /\ PathIsFile(fs0, cwd, sources[a])
    /\ ~StartsWith(sources[a], Destination)
    /\ CanCreate(fs0, cwd, DestPath(sources[a]))
    /\ a \notin hit

\* The unit's source as it was before the run, found at the unit's target.
CopyPresent(a) ==
    /\ PathIsFile(fs, cwd, DestPath(sources[a]))
    /\ fs[Resolve(fs, cwd, DestPath(sources[a])).path].data
          = fs0[Resolve(fs0, cwd, sources[a]).path].data

\* C6: with a limit of at least one, whenever the list holds a valid file A
\* and an entry B that fails, the run ends with A's copy present and
\* identical at destination.join(basename(A)), B recorded as failed and the
\* flag true.
C6_FailureIsIsolated ==
    (Finished /\ parallel >= 1) =>
        \A a, b \in Units :
            (a # b /\ ValidFile(a) /\ outcome[b] \in FailedOutcomes) =>
                (CopyPresent(a) /\ outcome[a] = "copied" /\ has_failed)

\* The entry is missing, or is a directory while --recursive is off.
Invalid(u) ==
    \/ ~PathExists(fs, cwd, sources[u])
    \/ PathIsDir(fs, cwd, sources[u]) /\ ~recursive

\* C7 as stated: an entry that is missing, or is a directory without
\* --recursive, never holds one of the slots.
C7_InvalidNeverHolds ==
    \A u \in Units : Invalid(u) => slot[u] # "held"

\* C7 as the code has it: such an entry is rejected by its own unit after
\* the unit has acquired a slot; the unit sets the flag, starts no copy,
\* writes nothing, and goes straight to releasing the slot.
C7_InvalidOnlyChecks ==
    \A u \in Units :
        /\ (slot[u] = "none" => outcome[u] = "none")
        /\ outcome[u] \in {"missing", "directory"} =>
              /\ has_failed
              /\ slot[u] \in {"held", "released"}
              /\ pc[u] \in {"release", "done"}
              /\ cp[u] = NoCopy /\ stack[u] = <<>>
              /\ \A w \in writers : w[2] # u

\* A directory given without --recursive has just been rejected and its
\* unit still holds the slot.
C7_RejectedWhileHolding ==
    \E u \in Units :
        /\ outcome[u] = "directory"
        /\ slot[u] = "held"
        /\ PathIsDir(fs0, cwd, sources[u])

Exited == mainpc \in {"exit0", "exit1"}

Ended == Exited \/ mainpc = "exit_dest"

SeqCopyFile(f, from, to) ==
    IF ~CanOpen(f, cwd, from) \/ ~CanCreate(f, cwd, to)
    THEN [ok |-> FALSE, fs |-> f]
    ELSE LET src == Resolve(f, cwd, from).path
             dst == Resolve(f, cwd, to).path
             created == Put(f, dst, File(<<>>))
         IN  IF created[src].kind # "file"
             THEN [ok |-> FALSE, fs |-> created]
             ELSE [ok |-> TRUE, fs |-> Put(created, dst, File(created[src].data))]

RECURSIVE SeqCopyDir(_, _, _)
RECURSIVE SeqEntries(_, _, _, _, _)

SeqEntries(f, from, to, dir, todo) ==
    IF todo = {} THEN [ok |-> TRUE, fs |-> f]
    ELSE LET c == CHOOSE x \in todo : TRUE
             r == IF IsDirAt(f, Append(dir, c))
                  THEN SeqCopyDir(f, Append(from, c), Append(to, c))
                  ELSE SeqCopyFile(f, Append(from, c), Append(to, c))
         IN  IF r.ok THEN SeqEntries(r.fs, from, to, dir, todo \ {c}) ELSE r

SeqCopyDir(f, from, to) ==
    IF IntoItself(cwd, from, to) THEN [ok |-> FALSE, fs |-> f]
    ELSE LET made == create_dir_all(f, cwd, to) IN
         IF ~made.ok \/ ~PathIsDir(made.fs, cwd, from)
         THEN [ok |-> FALSE, fs |-> f]
         ELSE LET dir == Resolve(made.fs, cwd, from).path IN
              SeqEntries(made.fs, from, to, dir, Children(made.fs, dir))

SeqUnit(f, source) ==
    IF ~PathExists(f, cwd, source) \/ (PathIsDir(f, cwd, source) /\ ~recursive)
    THEN [ok |-> FALSE, fs |-> f]
    ELSE IF PathIsFile(f, cwd, source)
    THEN SeqCopyFile(f, source, DestPath(source))
    ELSE IF PathIsDir(f, cwd, source)
    THEN SeqCopyDir(f, source, DestPath(source))
    ELSE [ok |-> TRUE, fs |-> f]

RECURSIVE SeqRun(_, _, _)
SeqRun(i, f, failed) ==
    IF i > Len(sources) THEN [fs |-> f, failed |-> failed]
    ELSE LET r == SeqUnit(f, sources[i]) IN
         SeqRun(i + 1, r.fs, failed \/ ~r.ok)

\* C9: for a given list of sources and a given filesystem, a run with a
\* limit of 1 and a run with a limit of 8 end with the same destination
\* tree and the same flag whatever the interleaving: every run without an
\* I/O fault ends as the run that takes the sources one after the other.
C9_EveryRunEndsAlike ==
    (Exited /\ hit = {}) =>
        /\ fs = SeqRun(1, fs0, FALSE).fs
        /\ has_failed = SeqRun(1, fs0, FALSE).failed

----------------------------------------------------------------------------
(* Properties of copy_dir_recursive.                                       *)

\* A path with "." and ".." collapsed lexically, read from its end: a ".."
\* cancels the nearest name before it, and is dropped at the root.
RECURSIVE Collapse(_, _)
Collapse(p, skip) ==
    IF p = <<>> THEN <<>>
    ELSE LET c == Last(p) IN
         IF c = RootDir THEN Root
         ELSE IF c = CurDir THEN Collapse(Front(p), skip)
         ELSE IF c = ParentDir THEN Collapse(Front(p), skip + 1)
         ELSE IF skip > 0 THEN Collapse(Front(p), skip - 1)
         ELSE Append(Collapse(Front(p), 0), c)

Lexical(p) == Collapse(Join(cwd, p), 0)

\* d is s followed by one or more components.
Extends(d, s) == Len(d) > Len(s) /\ SubSeq(d, 1, Len(s)) = s

Returned == pc[1] = "returned"

RejectedIntoItself == ~ret[1].ok /\ ret[1].err = IntoItselfError

\* C3: copy_dir_recursive(S, D) returns "cannot copy a directory into
\* itself" exactly when the lexically normalized D is the normalized S
\* followed by one or more components; a sibling, unrelated, ancestor or
\* identical D is not rejected by the check, at any depth of the walk.
C3_RejectsExactlyDescendants ==
    (entry.fn = "copy_dir_recursive" /\ Returned) =>
        (RejectedIntoItself <=> Extends(Lexical(entry.to), Lexical(entry.from)))

\* A destination written with ".." that lands inside the source is rejected
\* and nothing has been touched.
C3_DottedDescendantRejected ==
    /\ Returned /\ RejectedIntoItself
    /\ \E i \in DOMAIN entry.from : entry.from[i] = ParentDir
    /\ entry.to # Lexical(entry.to)
    /\ fs = fs0

\* The tree under a directory: every path below it, relative to it, with
\* what is there.
Subtree(f, base) ==
    LET below == { q \in DOMAIN f : Extends(q, base) } IN
    [r \in { SubSeq(q, Len(base) + 1, Len(q)) : q \in below } |-> f[base \o r]]

SourceBefore == Subtree(fs0, Resolve(fs0, cwd, entry.from).path)

DestAfter == Subtree(fs, Resolve(fs, cwd, entry.to).path)

\* The call is copy_dir_recursive(T, D) with T a directory before the call.
SourceIsTree ==
    entry.fn = "copy_dir_recursive" /\ PathIsDir(fs0, cwd, entry.from)

\* Before the call the destination does not exist or is an empty directory,
\* and every ".." of its path follows a directory that exists.
FreshDestination ==
    /\ \A i \in DOMAIN entry.to :
          entry.to[i] = ParentDir => PathIsDir(fs0, cwd, SubSeq(entry.to, 1, i - 1))
    /\ \/ ~PathExists(fs0, cwd, entry.to)
       \/ /\ PathIsDir(fs0, cwd, entry.to)
          /\ Children(fs0, Resolve(fs0, cwd, entry.to).path) = {}

\* C4 as stated: whenever copy_dir_recursive(T, D) returns success, the
\* relative paths under D are those under T and every file under D has the
\* bytes of its counterpart under T.
C4_DestinationEqualsSource ==
    (SourceIsTree /\ Returned /\ ret[1].ok) =>
        DestAfter = SourceBefore

\* C4 for a destination that did not exist or was an empty directory, and
\* whose path has no ".." after a missing directory.
C4_FreshDestinationEqualsSource ==
    (SourceIsTree /\ Returned /\ ret[1].ok /\ FreshDestination) =>
        DestAfter = SourceBefore

\* A nested tree with a two-block file has been copied to a destination
\* that did not exist.
C4_NestedTreeCopied ==
    /\ SourceIsTree /\ Returned /\ ret[1].ok
    /\ ~PathExists(fs0, cwd, entry.to)
    /\ <<"b", "a">> \in DOMAIN DestAfter
    /\ DestAfter[<<"b", "a">>].data = <<2, 1>>

----------------------------------------------------------------------------
(* Properties of the file copiers.                                         *)

SyncedAtEnd(c) == c.ops = <<"flush", "sync_all">>

\* C10: a file copy that returns success has flushed and then fully synced
\* the destination after its last write, and writes nothing after that
\* sync; a copy whose flush or full sync fails returns an error.
C10_SuccessMeansSynced ==
    /\ [](\A u \in Units :
            /\ cp[u].status = "ok" => SyncedAtEnd(cp[u])
            /\ (Returned /\ ret[u].ok) => cp[u].status = "ok"
            /\ cp[u].ops[2] \in {"flush_failed", "sync_all_failed"} =>
                  (cp[u].status = "err" /\ ~ret[u].ok /\ pc[u] \in {"ret", "returned"}))
    /\ [][\A u \in Units : cp[u].status = "ok" => (fs' = fs /\ cp'[u] = cp[u])]_vars

\* A copy of more than SYNC_INTERVAL bytes has returned success.
C10_LargeCopyReturned ==
    /\ Returned /\ ret[1].ok
    /\ ret[1].val > SYNC_INTERVAL
    /\ cp[1].status = "ok"
    /\ cp[1].wpos * Block = ret[1].val

\* C11: at the end of every chunk iteration of a file copy the bytes written
\* since the last data sync are fewer than SYNC_INTERVAL: a chunk that takes
\* the count to the threshold is followed by sync_data and a count of 0
\* before the next read, so the unsynced bytes never exceed
\* SYNC_INTERVAL + BUFFER_SIZE - 1.
C11_UnsyncedBelowThreshold ==
    \A u \in Units :
        /\ cp[u].bytes_since_sync < SYNC_INTERVAL
        /\ cp[u].unsynced_peak <= SYNC_INTERVAL + BUFFER_SIZE - 1
        /\ (pc[u] = "c_inc" /\ cp[u].ops[2] = "sync_data") =>
              (cp[u].bytes_since_sync = 0 /\ cp[u].unsynced_peak >= SYNC_INTERVAL)
        /\ (pc[u] = "c_inc" /\ cp[u].ops[2] = "write") =>
              cp[u].bytes_since_sync > 0

\* A chunk took the count past the threshold, to SYNC_INTERVAL + Block, and
\* the data sync has reset it.
C11_SyncedPastThreshold ==
    /\ pc[1] = "c_inc"
    /\ cp[1].ops = <<"write", "sync_data">>
    /\ cp[1].bytes_since_sync = 0
    /\ cp[1].unsynced_peak = SYNC_INTERVAL + Block

\* The sinks a file copy was given.
Sinks(u) ==
    (IF main_pb.on THEN {main_pb} ELSE {})
    \cup (IF cp[u].fn = "copy_file_with_dual_progress" /\ file_pb[u].on
          THEN {file_pb[u]} ELSE {})

\* The bytes the copy has written to the destination.
BytesWritten(c) == c.wpos * Block

\* C12: a successful file copy returns the number of bytes it wrote to the
\* destination, and every sink it was given has then been incremented by
\* that total, one increment per chunk of that chunk's size; throughout the
\* copy a sink has been told of no more bytes than have been written.
C12_CountAndSinksMatchWritten ==
    /\ [](\A u \in Units :
            /\ cp[u].total_bytes <= BytesWritten(cp[u])
            /\ \A pb \in Sinks(u) : pb.pos = cp[u].total_bytes
            /\ pc[u] = "c_inc" =>
                  BytesWritten(cp[u]) = cp[u].total_bytes + Len(cp[u].buf) * Block
            /\ cp[u].status = "ok" =>
                  (ret[u] = Ok(BytesWritten(cp[u]))
                   /\ \A pb \in Sinks(u) : pb.pos = ret[u].val))
    /\ [][\A u \in Units :
            (main_pb' # main_pb \/ file_pb'[u] # file_pb[u]) =>
               /\ pc[u] = "c_inc"
               /\ Len(cp[u].buf) > 0
               /\ \A pb \in Sinks(u)' : pb.pos = cp[u].total_bytes + Len(cp[u].buf) * Block]_vars

\* A copy in chunks of one block and of two, given both sinks, has returned
\* the MaxFileBlocks blocks it wrote.
C12_BothSinksAtTotal ==
    /\ Returned /\ ret[1] = Ok(MaxFileBlocks * Block)
    /\ cp[1].fn = "copy_file_with_dual_progress"
    /\ main_pb.on /\ main_pb.pos = MaxFileBlocks * Block
    /\ file_pb[1].on /\ file_pb[1].pos = MaxFileBlocks * Block

\* The blocks the units in S have written, over all their copies.
RECURSIVE WrittenBy(_)
WrittenBy(S) ==
    IF S = {} THEN 0
    ELSE LET u == CHOOSE v \in S : TRUE
         IN cp[u].unit_written + WrittenBy(S \ {u})

FilesUnder(f, root) ==
    { q \in DOMAIN f : StartsWith(q, root) /\ f[q].kind = "file" }

RECURSIVE SumOfSizes(_, _)
SumOfSizes(f, S) ==
    IF S = {} THEN 0
    ELSE LET q == CHOOSE r \in S : TRUE
         IN Len(f[q].data) + SumOfSizes(f, S \ {q})

\* The tree did not change under the call and every call on it succeeded.
StaticTree == scan.gone = <<>> /\ hit = {}

\* C14: on a tree that does not change get_copy_size returns the number of
\* the tree's regular files and the sum of their sizes, (1, size) for one
\* regular file, and (0, 0) for a path that does not exist or cannot be
\* read; the call never fails and its traversal ends.
C14_CountsFilesAndSizes ==
    /\ [](Returned =>
            /\ ret[1].ok
            /\ StaticTree =>
                  /\ ret[1].val = << Cardinality(FilesUnder(fs0, entry.from)),
                                     SumOfSizes(fs0, FilesUnder(fs0, entry.from)) >>
                  /\ ret[1].val = get_copy_size(fs0, cwd, entry.from)
                  /\ PathIsFile(fs0, cwd, entry.from) =>
                        ret[1].val = <<1, MetadataLen(fs0, cwd, entry.from)>>
            /\ (scan.gone = <<>> /\ ~PathExists(fs0, cwd, entry.from)) =>
                  ret[1].val = <<0, 0>>
            /\ (scan.gone = <<>> /\ <<"read_dir", entry.from>> \in scan.failed) =>
                  ret[1].val = <<0, 0>>)
    /\ <>Returned

\* The call has returned (3, 5) on a static tree of two levels: /a/f of two
\* blocks, /a/y/f of one, /a/y/g of two.
C14_NestedTreeCounted ==
    /\ Returned /\ StaticTree
    /\ IsDirAt(fs0, <<RootDir, "a", "y">>)
    /\ ret[1] = Ok(<<3, 5>>)

\* What get_copy_size returns on the tree as it is now.
EstimateNow == get_copy_size(fs, cwd, entry.from)

\* An entry went away after read_dir had yielded it and before the
\* traversal was done with it.
GoneInFlight == scan.gone # <<>> /\ scan.gone[3] \in {"enumerated", "checked"}

\* fs::metadata failed on files that are still there, and nothing else failed.
Unreadable ==
    /\ scan.gone = <<>>
    /\ scan.failed # {}
    /\ \A e \in scan.failed : e[1] = "metadata"

\* The files on which fs::metadata failed.
Unsized == { e[2] : e \in scan.failed }

\* C15: an entry that goes away or becomes unreadable between its
\* enumeration and its metadata lookup adds nothing to the file count and
\* nothing to the byte total that get_copy_size returns.
C15_LostEntryAddsNothing ==
    Returned =>
        /\ (GoneInFlight /\ hit = {}) => ret[1].val = EstimateNow
        /\ Unreadable =>
              ret[1].val = << Cardinality(FilesUnder(fs0, entry.from) \ Unsized),
                              SumOfSizes(fs0, FilesUnder(fs0, entry.from) \ Unsized) >>

\* C15 as the code has it: an entry that goes away while it waits on the
\* stack, or a directory that goes away before read_dir, adds nothing; a
\* file that goes away, or becomes unreadable, after p.is_file() and before
\* fs::metadata has been counted already: it adds one to the file count
\* and nothing to the byte total.
C15_LostFileCountedNotSized ==
    Returned =>
        /\ (GoneInFlight /\ hit = {}) =>
              ret[1].val =
                 IF scan.gone[2] = "file" /\ scan.gone[3] = "checked"
                 THEN <<EstimateNow[1] + 1, EstimateNow[2]>>
                 ELSE EstimateNow
        /\ Unreadable =>
              ret[1].val = << Cardinality(FilesUnder(fs0, entry.from)),
                              SumOfSizes(fs0, FilesUnder(fs0, entry.from) \ Unsized) >>

\* /a/y/f went away between p.is_file() and fs::metadata, and the call
\* returned one file more than the tree has.
C15_CheckedFileWentAway ==
    /\ Returned /\ hit = {}
    /\ scan.gone = << <<RootDir, "a", "y", "f">>, "file", "checked" >>
    /\ scan.failed = { <<"metadata", <<RootDir, "a", "y", "f">> >> }
    /\ ret[1].val[1] = Cardinality(FilesUnder(fs, entry.from)) + 1
    /\ ret[1].val[2] = SumOfSizes(fs, FilesUnder(fs, entry.from))

\* The call of trim_filename is over, with a value or with a panic.
Trimmed == entry.fn = "trim_filename" /\ pc[1] \in {"ret", "returned", "panicked"}

\* C16: a name no longer than the width comes back unchanged; a longer one
\* comes back exactly as long as the width: the first ceil((W-3)/2) of the
\* name, "...", and the last floor((W-3)/2) of the name.
C16_TrimmedToWidth ==
    Trimmed =>
        LET b == Utf8(entry.from)
            L == Len(b)
            W == entry.max_len
            out == scan.p
        IN  /\ ~out.panic
            /\ L <= W => out.val = b
            /\ W < L =>
                  /\ Len(out.val) = W
                  /\ out.val = SubSeq(b, 1, (W - 3 + 1) \div 2) \o Ellipsis
                                  \o SubSeq(b, L - (W - 3) \div 2 + 1, L)

\* The walk met an I/O error.
IoFailed == ~ret[1].ok /\ ret[1].err = IoError

\* Whatever is on disk in f is on disk in g, files with at least the bytes
\* they had.
KeptIn(f, g) ==
    \A q \in DOMAIN f :
        /\ q \in DOMAIN g
        /\ g[q].kind = f[q].kind
        /\ Len(f[q].data) <= Len(g[q].data)
        /\ SubSeq(g[q].data, 1, Len(f[q].data)) = f[q].data

\* C17: the first I/O failure of copy_dir_recursive, at any depth, is
\* returned to the outermost caller at once; after it nothing is created,
\* copied or enumerated, and what was written before it stays on disk.
C17_FirstFailureAborts ==
    /\ [](IoFailed => (pc[1] \in {"ret", "returned"} /\ stack[1] = <<>>))
    /\ [][IoFailed => (fs' = fs /\ stack' = stack /\ cp' = cp)]_vars
    /\ [][(~IoFailed /\ IoFailed') => KeptIn(fs, fs')]_vars

\* A walk into a destination that did not exist has failed after it wrote
\* there: the destination holds a part of the source.
C17_PartialCopyLeft ==
    /\ SourceIsTree /\ FreshDestination
    /\ Returned /\ IoFailed
    /\ \E w \in writers : Extends(w[1], Resolve(fs, cwd, entry.to).path)
    /\ DestAfter # SourceBefore
    /\ KeptIn(fs0, fs)

\* The names read_dir can yield in the trees of the walk.
EntryNames == {"a", "b"}

\* The walk is in a recursive call of copy_dir_recursive.
Deeper == entry.fn = "copy_dir_recursive" /\ Len(stack[1]) >= 2

\* C18: the self-containment check run again at each level of the recursion
\* is not redundant: some pair (S, D) passes it at the outermost call while
\* the pair (S/child, D/child) the walker builds fails it.
C18_DeeperCheckCanFail ==
    \E from \in PathArgs, to \in PathArgs, c \in EntryNames :
        /\ ~IntoItself(cwd, from, to)
        /\ IntoItself(cwd, Append(from, c), Append(to, c))

\* C18 as the code has it: a pair that passes the check at the outermost
\* call passes it at every deeper level, so the check can only ever fail
\* at the outermost call; a rejected call was rejected there.
C18_DeeperCheckNeverFails ==
    /\ Deeper => /\ ~IntoItself(cwd, Top(1).from, Top(1).to)
                 /\ ~IntoItself(cwd, entry.from, entry.to)
    /\ RejectedIntoItself => IntoItself(cwd, entry.from, entry.to)
    /\ (entry.fn = "copy_dir_recursive" /\ pc[1] = "w_check" /\ ~Deeper) =>
          \A c \in EntryNames :
              IntoItself(cwd, Append(entry.from, c), Append(entry.to, c))
                 => IntoItself(cwd, entry.from, entry.to)

\* The walk has run the check in a recursive call, on the pair of a
\* directory two levels down, and gone on to create the directory.
C18_DeeperCheckPassed ==
    /\ Deeper
    /\ pc[1] = "w_mkdir"
    /\ Top(1).from = Append(entry.from, "b")
    /\ Top(1).to = Append(entry.to, "b")

\* C19: a pair the self-containment check rejects is rejected before
\* anything is done: the destination directory is not created, no entry of
\* the source is enumerated, no file is written, and the filesystem after
\* the call is the filesystem before it.
C19_RejectionChangesNothing ==
    /\ [](RejectedIntoItself =>
            /\ fs = fs0
            /\ writers = {}
            /\ hit = {}
            /\ PathExists(fs, cwd, entry.to) <=> PathExists(fs0, cwd, entry.to))
    /\ [][(RejectedIntoItself' /\ ~RejectedIntoItself) =>
            /\ pc[1] = "w_check"
            /\ Top(1).seen = {} /\ Top(1).todo = {} /\ Top(1).dir = <<>>
            /\ fs' = fs]_vars

\* A copy of a directory into a missing directory below it has been
\* rejected, and the destination is still missing.
C19_MissingDestinationNotCreated ==
    /\ Returned /\ RejectedIntoItself
    /\ SourceIsTree
    /\ ~PathExists(fs0, cwd, entry.to)
    /\ ~PathExists(fs, cwd, entry.to)

\* The units with a file copy in progress.
Copying == { u \in Units : cp[u].status = "running" }

\* C20: a unit of work copies its subtree one entry at a time: while a file
\* copy of the unit is in progress the unit's walk does not move (it can
\* only be unwound by the copy's failure), and the unit holds its slot; so
\* at most `parallel` file copies are in progress in the whole run.
C20_CopiesBoundedByLimit ==
    /\ [](/\ Cardinality(Copying) <= parallel
          /\ \A u \in Copying :
                /\ slot[u] = "held"
                /\ pc[u] \in {"c_open", "c_create", "c_read", "c_write", "c_inc",
                              "c_flush", "c_sync_all"})
    /\ [][\A u \in Copying : stack'[u] = stack[u] \/ (stack'[u] = <<>> /\ ~ret'[u].ok)]_vars
    /\ [][\A u \in Units : (u \in Copying' /\ cp'[u].from # cp[u].from) => u \notin Copying]_vars

\* With one slot, a unit is writing a file of its directory while the other
\* unit waits for the slot.
C20_OneCopyOthersWait ==
    /\ parallel = 1
    /\ \E u, v \in Units :
          /\ u \in Copying /\ Len(stack[u]) >= 1 /\ cp[u].wpos > 0
          /\ Copying = {u}
          /\ pc[v] = "acquire" /\ slot[v] = "none"

\* The units between sem.acquire() and the end of their task.
InFlight == { u \in Units : pc[u] \notin {"idle", "acquire", "done"} }

\* C21: a unit that acquired a slot gives it back when its task ends, on
\* every path (missing source, directory without --recursive, copy
\* success, copy error) and once only; the slots held are those of the
\* units between acquire and end, and when all units have ended all
\* `parallel` slots are free.
C21_SlotsReleasedOnce ==
    /\ [](entry.fn = "run" =>
            /\ Held = InFlight
            /\ permits + Cardinality(Held) = parallel
            /\ \A u \in Units : pc[u] = "done" =>
                  (slot[u] = "released" /\ outcome[u] # "none")
            /\ Finished => (permits = parallel
                            /\ \A u \in Units : slot[u] = "released"))
    /\ [][\A u \in Units :
            /\ slot[u] = "released" => slot'[u] = "released"
            /\ (slot[u] = "held" /\ slot'[u] # "held") =>
                  (pc[u] = "release" /\ slot'[u] = "released"
                   /\ permits' = permits + 1)]_vars

\* A run on one slot has ended with the slot free: one unit returned early
\* on a missing source, the other failed in its copy.
C21_AllPathsGaveBack ==
    /\ Finished /\ parallel = 1 /\ permits = 1
    /\ \E u, v \in Units : outcome[u] = "missing" /\ outcome[v] = "failed"

\* Every unit of the run has acquired its slot.
AllAcquired == \A u \in Units : slot[u] # "none"

\* C22: the limit that sizes the slot pool, min(requested, available
\* parallelism), is at least 1 whatever was requested, 0 included; so once
\* the tasks are spawned every unit acquires a slot and the run ends.
C22_LimitAtLeastOne ==
    /\ [](entry.fn = "run" => parallel >= 1)
    /\ (mainpc = "join") ~> AllAcquired
    /\ (mainpc = "join") ~> Ended

\* The regular files of the sources of the run, as they were at its start.
SourceFiles ==
    UNION { FilesUnder(fs0, sources[u]) : u \in Units }

\* C23: no copy modifies a source: whatever pairs the scheduler accepts (a
\* source file that already lies in the destination directory included),
\* every source file holds, during and after the run, the bytes it held
\* before it.
C23_SourcesKeepTheirBytes ==
    entry.fn = "run" =>
        \A q \in SourceFiles : q \in DOMAIN fs /\ fs[q] = fs0[q]

\* The unit found its source when it checked for it.
ExistedAtCheck(u) == outcome[u] \notin {"none", "missing"}

\* C24: every entry whose source exists when it is checked ends in one of
\* two ways the caller can see: when the run has ended its copy is at
\* destination.join(basename(source)), or the failure flag was set for it;
\* no existing entry is passed over with neither.
C24_CopiedOrFlagged ==
    Finished =>
        \A u \in Units :
            ExistedAtCheck(u) =>
                \/ outcome[u] = "copied" /\ PathExists(fs, cwd, DestPath(sources[u]))
                \/ outcome[u] \in {"directory", "failed"} /\ has_failed

====
